---- MODULE Spec2Model ----
(***************************************************************************)
(* A model of kapprover's decision core:                                   *)
(*   - the "always" approver (Always.Approve) with its retry-on-conflict   *)
(*     loop against the CSR store client;                                  *)
(*   - the inspectors registry (Register, Unregister, List, Get) guarded   *)
(*     by the package-level sync.RWMutex inspectorM.                       *)
(* The two parts have their own specifications, SpecApprove and            *)
(* SpecRegistry; each leaves the other part's variables at their initial   *)
(* values.                                                                 *)
(***************************************************************************)
EXTENDS Integers, Sequences, FiniteSets, TLC

VARIABLES
    \* ---- always approver and the store it talks to
    store,        \* name -> stored CSR object (the API server's copy)
    callerReq,    \* the object the caller passed to Approve (*request at entry)
    fetched,      \* the object the last successful client.Get returned
    ref,          \* what the local variable `request` points to: "caller" | "fetched"
    pc,           \* position of Approve: "idle" | "check" | "update" | "get" | "done"
    ret,          \* Approve's return value (Running while it has not returned)
    calls,        \* store calls made by the current Approve call, in order
    entryReq,     \* the caller's object as it was when Approve was entered
    \* ---- inspectors registry
    inspectors,   \* the map inspectors: lowercase name -> Inspector
    writer,       \* goroutine holding inspectorM for writing, or NoProc
    readers,      \* goroutines holding inspectorM for reading
    gpc,          \* per goroutine: position in the registry call it runs
    gop,          \* per goroutine: the registry function it is in
    garg,         \* per goroutine: the name argument
    ginst,        \* per goroutine: the Inspector argument (Register)
    gres,         \* per goroutine: outcome of its call
    overlap,      \* per goroutine: goroutines whose call overlapped its current call
    gfree,        \* per goroutine: its name was unregistered when its call began
    \* ---- the policy (type Inspectors) and the calls that build it
    policy,         \* *inspectors: the slice of NamedInspector
    setValue,       \* argument of the last Set
    setErr,         \* what the last Set returned
    configureCalls, \* calls of Configure made by the last Set
    \* ---- evaluation of the policy for one request
    epc,          \* position of the evaluator: "idle" | "inspect" | "persist" | "done"
    eidx,         \* index of the member to inspect next
    inspectLog    \* calls of Inspect made for the current request, in order

approveVars == <<store, callerReq, fetched, ref, pc, ret, calls, entryReq>>
registryVars == <<inspectors, writer, readers, gpc, gop, garg, ginst, gres, overlap, gfree>>
setVars == <<policy, setValue, setErr, configureCalls>>
evalVars == <<epc, eidx, inspectLog>>
notApproveVars == <<registryVars, setVars, evalVars>>
notRegistryVars == <<approveVars, setVars, evalVars>>
vars == <<approveVars, registryVars, setVars, evalVars>>

-----------------------------------------------------------------------------
(* Bounds of the model.                                                    *)

\* writes to the store (by anyone) after which the other actors stop writing
MaxWrites == 2
\* longest plugin name, in characters
MaxNameLen == 1
\* store calls of one Approve call after which the store stops answering a
\* conflict of its own accord (it answers only finitely many in a row)
MaxLog == 4
\* longest argument of Set, in characters
MaxValueLen == 3
\* longest rendering of the policy, in characters
MaxPolicyLen == 5

-----------------------------------------------------------------------------
(* Always approver: constants and data.                                    *)

kubeletBootstrapUsername == "kubelet-bootstrap"
kubeletBootstrapGroup == "system:kubelet-bootstrap"

RECURSIVE SeqsUpTo(_, _)
SeqsUpTo(S, n) ==
    IF n = 0 THEN {<<>>}
    ELSE LET shorter == SeqsUpTo(S, n - 1)
         IN  shorter \cup {Append(s, x) : s \in {t \in shorter : Len(t) = n - 1}, x \in S}

\* Spec.Username / Spec.Groups a request may carry: the bootstrap identity
\* (its group found only at the second position) and near misses of it
Identities ==
    { [Username |-> kubeletBootstrapUsername,
       Groups |-> <<"system:nodes", kubeletBootstrapGroup>>],
      [Username |-> "kubelet-bootstraq",
       Groups |-> <<kubeletBootstrapGroup>>],
      [Username |-> kubeletBootstrapUsername,
       Groups |-> <<"system:kubelet-bootstraps", "system:nodes">>],
      [Username |-> kubeletBootstrapUsername,
       Groups |-> <<>>] }

CSRNames == {"csr-a", "csr-b"}

CertificateApproved == "Approved"
CertificateDenied == "Denied"

\* the condition Approve builds before its loop
condition ==
    [Type |-> CertificateApproved,
     Reason |-> "AutoApproved",
     Message |-> "Auto approving of all kubelet CSRs is enabled on bootkube"]

\* a condition written by some other controller or an administrator
OtherCondition(type) ==
    [Type |-> type, Reason |-> "Manual", Message |-> "decided by another actor"]

\* error texts, as sequences of text chunks; nil and "not returned yet" are
\* distinct from every error
Nil == <<"<nil>">>
Running == <<"<running>">>
ConflictIndicator == <<"the object has been modified">>
ConflictError ==
    <<"Operation cannot be fulfilled on certificatesigningrequests: ",
      "the object has been modified",
      "; please apply your changes to the latest version and try again">>
TimeoutError == <<"etcdserver: ", "request timed out">>
DeletedError == <<"the object has been ", "deleted">>
OtherErrors == {TimeoutError, DeletedError}

\* strings.Contains on chunked text
Contains(s, sub) ==
    \E i \in 1..(Len(s) - Len(sub) + 1) : SubSeq(s, i, i + Len(sub) - 1) = sub

-----------------------------------------------------------------------------
(* The store behind the client (the API server).  It keeps one object per  *)
(* name and rejects an update made from a stale resourceVersion.           *)

NewObject(n, id) ==
    [Name |-> n, Username |-> id.Username, Groups |-> id.Groups,
     Conditions |-> <<>>, ResourceVersion |-> 0]

RECURSIVE SumVersions(_)
SumVersions(S) ==
    IF S = {} THEN 0
    ELSE LET n == CHOOSE x \in S : TRUE
         IN  store[n].ResourceVersion + SumVersions(S \ {n})

\* client.UpdateApproval(obj): replaces the stored conditions by obj's when obj
\* was read at the stored resourceVersion and answers a conflict otherwise;
\* `fault` is an error the call may fail with before it touches the object.
UpdateApprovalErr(obj, fault) ==
    IF fault # Nil THEN fault
    ELSE IF store[obj.Name].ResourceVersion # obj.ResourceVersion THEN ConflictError
    ELSE Nil

UpdateApprovalStore(obj, fault) ==
    IF UpdateApprovalErr(obj, fault) = Nil
    THEN [store EXCEPT ![obj.Name] =
             [@ EXCEPT !.Conditions = obj.Conditions,
                       !.ResourceVersion = @ + 1]]
    ELSE store

\* another controller or an administrator decides the request (it decides only
\* a request that has no decision yet)
OtherActorDecide(n, type) ==
    /\ SumVersions(CSRNames) < MaxWrites
    /\ store[n].Conditions = <<>>
    /\ store' = [store EXCEPT ![n] =
                    [@ EXCEPT !.Conditions = <<OtherCondition(type)>>,
                              !.ResourceVersion = @ + 1]]
    /\ UNCHANGED <<callerReq, fetched, ref, pc, ret, calls, entryReq>>
    /\ UNCHANGED notApproveVars

\* another actor writes the object without deciding it (labels, annotations)
OtherActorTouch(n) ==
    /\ SumVersions(CSRNames) < MaxWrites
    /\ store' = [store EXCEPT ![n] = [@ EXCEPT !.ResourceVersion = @ + 1]]
    /\ UNCHANGED <<callerReq, fetched, ref, pc, ret, calls, entryReq>>
    /\ UNCHANGED notApproveVars

\* the request is deleted and submitted again under the same name, possibly by
\* somebody else
OtherActorRecreate(n, id) ==
    /\ SumVersions(CSRNames) < MaxWrites
    /\ store' = [store EXCEPT ![n] =
                    [NewObject(n, id) EXCEPT
                        !.ResourceVersion = store[n].ResourceVersion + 1]]
    /\ UNCHANGED <<callerReq, fetched, ref, pc, ret, calls, entryReq>>
    /\ UNCHANGED notApproveVars

-----------------------------------------------------------------------------
(* Always.Approve.  The function is one sequential loop; it is cut at its   *)
(* two store calls, where the other actors' writes can fall in between.    *)

NoObject ==
    [Name |-> "", Username |-> "", Groups |-> <<>>,
     Conditions |-> <<>>, ResourceVersion |-> 0]

\* the object the local variable `request` points to
Request == IF ref = "caller" THEN callerReq ELSE fetched

\* mutants of HasCondition: only an approval counts; more than one condition
HasApprovedCondition(req) ==
    \E i \in 1..Len(req.Conditions) : req.Conditions[i].Type = CertificateApproved
HasSeveralConditions(req) == Len(req.Conditions) > 1

\* len(request.Status.Conditions) > 0
HasCondition(req) == Len(req.Conditions) > 0

\* request.Spec.Username != kubeletBootstrapUsername, negated
UsernameMatches(req) == req.Username = kubeletBootstrapUsername

\* mutant of isKubeletBootstrapGroup: the flag is set for whatever group comes first
AnyGroupMatches(groups) == groups # <<>>

\* the loop over request.Spec.Groups that sets isKubeletBootstrapGroup
RECURSIVE isKubeletBootstrapGroup(_)
isKubeletBootstrapGroup(groups) ==
    IF groups = <<>> THEN FALSE
    ELSE IF Head(groups) = kubeletBootstrapGroup THEN TRUE
    ELSE isKubeletBootstrapGroup(Tail(groups))

\* the three early returns of one loop iteration
Abstains(req) ==
    \/ HasCondition(req)
    \/ ~UsernameMatches(req)
    \/ ~isKubeletBootstrapGroup(req.Groups)

\* mutant of Approved: the condition is appended twice
AppendedTwice(req) == [req EXCEPT !.Conditions = Append(Append(@, condition), condition)]

\* mutant of Approved: the condition appended has the other type
AppendedDenied(req) ==
    [req EXCEPT !.Conditions = Append(@, [condition EXCEPT !.Type = CertificateDenied])]

\* request.Status.Conditions = append(request.Status.Conditions, condition)
Approved(req) == [req EXCEPT !.Conditions = Append(@, condition)]

\* mutants of IsConflict: another text is looked for; every error is retried;
\* only the beginning of the text is looked for
IsConflictOtherText(err) == Contains(err, <<"the object was modified">>)
IsAnyError(err) == err # Nil
IsConflictPrefix(err) ==
    Contains(err, ConflictIndicator) \/ Contains(err, <<"the object has been ">>)

\* strings.Contains(err.Error(), "the object has been modified")
IsConflict(err) == Contains(err, ConflictIndicator)

CallRecord(op, name, obj, err) == [op |-> op, name |-> name, obj |-> obj, err |-> err]

\* the caller reads request n from the store and passes it to Approve
ApproveCall(n) ==
    /\ pc \in {"idle", "done"}
    /\ callerReq' = store[n]
    /\ entryReq' = store[n]
    /\ fetched' = NoObject
    /\ ref' = "caller"
    /\ pc' = "check"
    /\ ret' = Running
    /\ calls' = <<>>
    /\ UNCHANGED store
    /\ UNCHANGED notApproveVars

\* the caller passes the object of its previous call to Approve once more
ApproveAgain ==
    /\ pc = "done"
    /\ entryReq' = callerReq
    /\ fetched' = NoObject
    /\ ref' = "caller"
    /\ pc' = "check"
    /\ ret' = Running
    /\ calls' = <<>>
    /\ UNCHANGED <<store, callerReq>>
    /\ UNCHANGED notApproveVars

\* one loop iteration up to the append: the early returns, or the append
ApproveCheck ==
    /\ pc = "check"
    /\ IF Abstains(Request)
       THEN /\ ret' = Nil
            /\ pc' = "done"
            /\ UNCHANGED <<callerReq, fetched>>
       ELSE /\ pc' = "update"
            /\ ret' = ret
            /\ IF ref = "caller"
               THEN callerReq' = Approved(callerReq) /\ fetched' = fetched
               ELSE fetched' = Approved(fetched) /\ callerReq' = callerReq
    /\ UNCHANGED <<store, ref, calls, entryReq>>
    /\ UNCHANGED notApproveVars

\* client.UpdateApproval(request) and the branch on its error
ApproveUpdate(fault) ==
    /\ pc = "update"
    /\ LET err == UpdateApprovalErr(Request, fault)
       IN  /\ store' = UpdateApprovalStore(Request, fault)
           /\ calls' = Append(calls,
                   CallRecord("UpdateApproval", Request.Name, Request, err))
           /\ IF err = Nil
              THEN ret' = Nil /\ pc' = "done"
              ELSE IF IsConflict(err)
              THEN ret' = ret /\ pc' = "get"
              ELSE ret' = err /\ pc' = "done"
    /\ UNCHANGED <<callerReq, fetched, ref, entryReq>>
    /\ UNCHANGED notApproveVars

\* mutant of ApproveGet: the error of client.Get is not looked at, and the
\* loop goes on with whatever Get returned
ApproveGetIgnoresError(fault) ==
    /\ pc = "get"
    /\ fetched' = IF fault # Nil THEN NoObject ELSE store[Request.Name]
    /\ ref' = "fetched"
    /\ pc' = "check"
    /\ ret' = ret
    /\ calls' = Append(calls,
            CallRecord("Get", Request.Name,
                       IF fault # Nil THEN NoObject ELSE store[Request.Name], fault))
    /\ UNCHANGED <<store, callerReq, entryReq>>
    /\ UNCHANGED notApproveVars

\* request, err = client.Get(request.ObjectMeta.Name, ...) after a conflict
ApproveGet(fault) ==
    /\ pc = "get"
    /\ IF fault # Nil
       THEN /\ ret' = fault
            /\ pc' = "done"
            /\ calls' = Append(calls, CallRecord("Get", Request.Name, NoObject, fault))
            /\ UNCHANGED <<fetched, ref>>
       ELSE /\ fetched' = store[Request.Name]
            /\ ref' = "fetched"
            /\ pc' = "check"
            /\ ret' = ret
            /\ calls' = Append(calls,
                    CallRecord("Get", Request.Name, store[Request.Name], Nil))
    /\ UNCHANGED <<store, callerReq, entryReq>>
    /\ UNCHANGED notApproveVars

-----------------------------------------------------------------------------
(* The inspectors registry.  A name is a sequence of characters, so that   *)
(* strings.ToLower is modelled by what it does to each character.  Each    *)
(* function is cut where another goroutine can run in between: at its      *)
(* entry, at the Lock/RLock, and in Register between the checks and the    *)
(* store; the deferred Unlock runs with the last step of the body.         *)

Chars == {"A", "a"}
PluginNames == SeqsUpTo(Chars, MaxNameLen)

LowerChar(c) == IF c = "A" THEN "a" ELSE c

\* strings.ToLower
ToLower(name) == [i \in 1..Len(name) |-> LowerChar(name[i])]

NilInspector == "nil"

Procs == {"g1", "g2"}
NoProc == "none"

\* each goroutine registers a plugin of its own, as the plugins' init() do
InstanceOf(g) == IF g = "g1" THEN "inspector1" ELSE "inspector2"
Instances == {InstanceOf(g) : g \in Procs}

WriteOps == {"Register", "Unregister"}

NoResult == [out |-> "none", a |-> NilInspector, exists |-> FALSE, list |-> {}]
Returned(a, exists, list) == [out |-> "returned", a |-> a, exists |-> exists, list |-> list]
Panicked == [out |-> "panicked", a |-> NilInspector, exists |-> FALSE, list |-> {}]

\* mutant of CanLock: the mutex is not taken
LockNotTaken(g) == TRUE

\* inspectorM.Lock() returns: nobody holds the mutex
CanLock(g) == writer = NoProc /\ readers = {}

\* inspectorM.RLock() returns: no writer holds the mutex.  (Go also holds a
\* reader back while a writer waits; that only removes behaviours.)
CanRLock(g) == writer = NoProc

\* a goroutine enters one of the registry functions
Enter(g, op, name, a) ==
    /\ gpc[g] = "idle"
    /\ gpc' = [gpc EXCEPT ![g] = "lock"]
    /\ gop' = [gop EXCEPT ![g] = op]
    /\ garg' = [garg EXCEPT ![g] = name]
    /\ ginst' = [ginst EXCEPT ![g] = a]
    /\ gres' = [gres EXCEPT ![g] = NoResult]
    /\ overlap' = [h \in Procs |->
                      IF h = g THEN {k \in Procs \ {g} : gpc[k] # "idle"}
                      ELSE IF gpc[h] # "idle" THEN overlap[h] \cup {g}
                      ELSE overlap[h] \ {g}]
    /\ gfree' = [gfree EXCEPT ![g] =
                     op = "Register" => ToLower(name) \notin DOMAIN inspectors]
    /\ UNCHANGED <<inspectors, writer, readers>>
    /\ UNCHANGED notRegistryVars

RegisterCall(g, name, a) == Enter(g, "Register", name, a)
UnregisterCall(g, name) == Enter(g, "Unregister", name, NilInspector)
GetCall(g, name) == Enter(g, "Get", name, NilInspector)
ListCall(g) == Enter(g, "List", <<>>, NilInspector)

\* inspectorM.Lock() at the top of Register, Unregister and Get
AcquireLock(g, op) ==
    /\ gpc[g] = "lock"
    /\ gop[g] = op
    /\ CanLock(g)
    /\ writer' = g
    /\ gpc' = [gpc EXCEPT ![g] = "locked"]
    /\ UNCHANGED <<inspectors, readers, gop, garg, ginst, gres, overlap, gfree>>
    /\ UNCHANGED notRegistryVars

RegisterLock(g) == AcquireLock(g, "Register")
UnregisterLock(g) == AcquireLock(g, "Unregister")
GetLock(g) == AcquireLock(g, "Get")

\* inspectorM.RLock() at the top of List
ListRLock(g) ==
    /\ gpc[g] = "lock"
    /\ gop[g] = "List"
    /\ CanRLock(g)
    /\ readers' = readers \cup {g}
    /\ gpc' = [gpc EXCEPT ![g] = "locked"]
    /\ UNCHANGED <<inspectors, writer, gop, garg, ginst, gres, overlap, gfree>>
    /\ UNCHANGED notRegistryVars

\* the deferred inspectorM.Unlock() / RUnlock(), which also runs on a panic
Unlocked(g) == IF writer = g THEN NoProc ELSE writer
RUnlocked(g) == readers \ {g}

\* mutant of RegisterKey: the name is stored as given
RegisterKeyAsGiven(name) == name

\* the key Register stores under
RegisterKey(name) == ToLower(name)

\* Register's checks: the two panics on the arguments, the lowercasing and
\* the duplicate check
RegisterPanics(name, a) ==
    \/ name = <<>>
    \/ a = NilInspector
    \/ RegisterKey(name) \in DOMAIN inspectors

RegisterCheck(g) ==
    /\ gpc[g] = "locked"
    /\ gop[g] = "Register"
    /\ IF RegisterPanics(garg[g], ginst[g])
       THEN /\ gres' = [gres EXCEPT ![g] = Panicked]
            /\ gpc' = [gpc EXCEPT ![g] = "idle"]
            /\ writer' = Unlocked(g)
       ELSE /\ gpc' = [gpc EXCEPT ![g] = "checked"]
            /\ UNCHANGED <<gres, writer>>
    /\ UNCHANGED <<inspectors, readers, gop, garg, ginst, overlap, gfree>>
    /\ UNCHANGED notRegistryVars

\* inspectors[name] = a, then the deferred Unlock
RegisterStore(g) ==
    /\ gpc[g] = "checked"
    /\ gop[g] = "Register"
    /\ inspectors' = [k \in DOMAIN inspectors \cup {RegisterKey(garg[g])} |->
                         IF k = RegisterKey(garg[g]) THEN ginst[g] ELSE inspectors[k]]
    /\ gres' = [gres EXCEPT ![g] = Returned(NilInspector, FALSE, {})]
    /\ gpc' = [gpc EXCEPT ![g] = "idle"]
    /\ writer' = Unlocked(g)
    /\ UNCHANGED <<readers, gop, garg, ginst, overlap, gfree>>
    /\ UNCHANGED notRegistryVars

\* delete(inspectors, name), then the deferred Unlock
UnregisterDelete(g) ==
    /\ gpc[g] = "locked"
    /\ gop[g] = "Unregister"
    /\ inspectors' = [k \in DOMAIN inspectors \ {garg[g]} |-> inspectors[k]]
    /\ gres' = [gres EXCEPT ![g] = Returned(NilInspector, FALSE, {})]
    /\ gpc' = [gpc EXCEPT ![g] = "idle"]
    /\ garg' = [garg EXCEPT ![g] = <<>>]
    /\ writer' = Unlocked(g)
    /\ UNCHANGED <<readers, gop, ginst, overlap, gfree>>
    /\ UNCHANGED notRegistryVars

\* a, exists = inspectors[name]
GetResult(name) ==
    IF name \in DOMAIN inspectors
    THEN Returned(inspectors[name], TRUE, {})
    ELSE Returned(NilInspector, FALSE, {})

GetLookup(g) ==
    /\ gpc[g] = "locked"
    /\ gop[g] = "Get"
    /\ gres' = [gres EXCEPT ![g] = GetResult(garg[g])]
    /\ gpc' = [gpc EXCEPT ![g] = "idle"]
    /\ garg' = [garg EXCEPT ![g] = <<>>]
    /\ writer' = Unlocked(g)
    /\ UNCHANGED <<inspectors, readers, gop, ginst, overlap, gfree>>
    /\ UNCHANGED notRegistryVars

\* the keys of the map, in no particular order
ListCollect(g) ==
    /\ gpc[g] = "locked"
    /\ gop[g] = "List"
    /\ gres' = [gres EXCEPT ![g] = Returned(NilInspector, FALSE, DOMAIN inspectors)]
    /\ gpc' = [gpc EXCEPT ![g] = "idle"]
    /\ garg' = [garg EXCEPT ![g] = <<>>]
    /\ readers' = RUnlocked(g)
    /\ UNCHANGED <<inspectors, writer, gop, ginst, overlap, gfree>>
    /\ UNCHANGED notRegistryVars

-----------------------------------------------------------------------------
(* The policy: type Inspectors with String and Set.  A value is a sequence *)
(* of characters, so that strings.SplitN and the joins of String are       *)
(* computed character by character.                                        *)

\* "a" is the name of a registered plugin, "b" of none
SetChars == {"a", "b", "=", ","}
Values == SeqsUpTo(SetChars, MaxValueLen)

NamedInspector(name, config, inspector) ==
    [Name |-> name, Config |-> config, Inspector |-> inspector]

\* one entry of String: the name, then "=" and the config when there is one
Entry(namedInspector) ==
    IF namedInspector.Config # <<>>
    THEN namedInspector.Name \o <<"=">> \o namedInspector.Config
    ELSE namedInspector.Name

\* Inspectors.String: the entries with a "," before each but the first
RECURSIVE String(_)
String(p) ==
    IF p = <<>> THEN <<>>
    ELSE IF Len(p) = 1 THEN Entry(p[1])
    ELSE String(SubSeq(p, 1, Len(p) - 1)) \o <<",">> \o Entry(p[Len(p)])

\* position of the first / the last sep in s, 0 when there is none
FirstIndex(s, sep) ==
    IF \E i \in 1..Len(s) : s[i] = sep
    THEN CHOOSE i \in 1..Len(s) : s[i] = sep /\ \A j \in 1..(i - 1) : s[j] # sep
    ELSE 0
LastIndex(s, sep) ==
    IF \E i \in 1..Len(s) : s[i] = sep
    THEN CHOOSE i \in 1..Len(s) : s[i] = sep /\ \A j \in (i + 1)..Len(s) : s[j] # sep
    ELSE 0

\* mutant of SplitN: the value is cut at its last "="
SplitAtLast(value) ==
    IF LastIndex(value, "=") = 0 THEN <<value>>
    ELSE <<SubSeq(value, 1, LastIndex(value, "=") - 1),
           SubSeq(value, LastIndex(value, "=") + 1, Len(value))>>

\* strings.SplitN(value, "=", 2): at most two pieces, cut at the first "="
SplitN(value) ==
    IF FirstIndex(value, "=") = 0 THEN <<value>>
    ELSE <<SubSeq(value, 1, FirstIndex(value, "=") - 1),
           SubSeq(value, FirstIndex(value, "=") + 1, Len(value))>>

\* what Set returns: nil, the error it builds when Get finds no inspector
\* (the name and the names List returns), or the error of Configure
NoSetError == [kind |-> "nil", name |-> <<>>, registered |-> {}]
NotFoundError(name, list) == [kind |-> "not found", name |-> name, registered |-> list]
ConfigureError == [kind |-> "configure", name |-> <<>>, registered |-> {}]

\* Inspector.Configure of a plugin: it answers an instance (a new one, or the
\* receiver) or an error
ConfiguredInspector == "configured inspector"
ConfigureOutcomes(a) ==
    {[inspector |-> ConfiguredInspector, err |-> NoSetError],
     [inspector |-> a, err |-> NoSetError],
     [inspector |-> NilInspector, err |-> ConfigureError]}

ConfigureCall(a, config, outcome) == [receiver |-> a, config |-> config, outcome |-> outcome]

\* Inspectors.Set on the policy p; `outcome` is what Configure answers if it
\* is called.  The result: the policy, the error, the calls of Configure.
SetResult(p, value, outcome) ==
    LET split == SplitN(value)
        name == split[1]
        got == GetResult(name)
        config == IF Len(split) > 1 THEN split[2] ELSE <<>>
    IN  IF ~got.exists
        THEN [policy |-> p, err |-> NotFoundError(name, DOMAIN inspectors),
              configured |-> <<>>]
        ELSE IF config # <<>>
        THEN IF outcome.err # NoSetError
             THEN [policy |-> p, err |-> outcome.err,
                   configured |-> <<ConfigureCall(got.a, split[2], outcome)>>]
             ELSE [policy |-> Append(p, NamedInspector(name, config, outcome.inspector)),
                   err |-> NoSetError,
                   configured |-> <<ConfigureCall(got.a, split[2], outcome)>>]
        ELSE [policy |-> Append(p, NamedInspector(name, config, got.a)),
              err |-> NoSetError, configured |-> <<>>]

NoValue == <<"<none>">>

\* one call of Set.  Its Get and List take and release inspectorM, so the
\* call goes through when no goroutine holds it.  The flag parser that calls
\* Set stops at the first call that fails.  The policy is kept so short that
\* String renders it in MaxPolicyLen characters.
Set(value) ==
    /\ setErr = NoSetError
    /\ writer = NoProc /\ readers = {}
    /\ policy = <<>> \/ Len(String(policy)) + 1 + Len(value) <= MaxPolicyLen
    /\ \E outcome \in ConfigureOutcomes(GetResult(SplitN(value)[1]).a) :
          LET r == SetResult(policy, value, outcome)
          IN  /\ policy' = r.policy
              /\ setErr' = r.err
              /\ configureCalls' = r.configured
    /\ setValue' = value
    /\ UNCHANGED <<approveVars, registryVars, evalVars>>

-----------------------------------------------------------------------------
(* Evaluation of the policy for one request: the members' Inspect is       *)
(* called in the order of the policy; a message denies the request, an     *)
(* error defers it, and a request no member objects to is approved.  The   *)
(* store has no other writer here, so an update meets no conflict.         *)

\* what Inspect of an inspector can answer: nothing, a message, an error
Objection(inspector) ==
    IF inspector = ConfiguredInspector
    THEN "refused by the configured inspector"
    ELSE "refused by the registered inspector"
InspectError(inspector) == <<"inspection failed: ", inspector>>
InspectOutcomes(inspector) ==
    {[message |-> "", err |-> Nil],
     [message |-> Objection(inspector), err |-> Nil],
     [message |-> "", err |-> InspectError(inspector)]}

DeniedCondition(message) ==
    [Type |-> CertificateDenied, Reason |-> "PolicyViolation", Message |-> message]
ApprovedCondition ==
    [Type |-> CertificateApproved, Reason |-> "PolicyPassed",
     Message |-> "no inspector objected"]

InspectCall(i, outcome) ==
    [member |-> i, inspector |-> policy[i].Inspector,
     message |-> outcome.message, err |-> outcome.err]

\* the driving loop hands a pending request to the evaluator
EvaluateCall(n) ==
    /\ epc \in {"idle", "done"}
    /\ pc = "idle"
    /\ store[n].Conditions = <<>>
    /\ callerReq' = store[n]
    /\ epc' = "inspect"
    /\ eidx' = 1
    /\ inspectLog' = <<>>
    /\ ret' = Running
    /\ calls' = <<>>
    /\ UNCHANGED <<store, fetched, ref, pc, entryReq>>
    /\ UNCHANGED <<registryVars, setVars>>

\* mutant of EvaluateInspect: a message or an error of a member is noted
\* and the next member is inspected all the same
EvaluateInspectAll(outcome) ==
    /\ epc = "inspect"
    /\ outcome \in InspectOutcomes(policy[eidx].Inspector)
    /\ inspectLog' = Append(inspectLog, InspectCall(eidx, outcome))
    /\ IF eidx < Len(policy)
       THEN /\ eidx' = eidx + 1
            /\ epc' = "inspect"
            /\ ret' = ret
            /\ callerReq' = callerReq
       ELSE /\ eidx' = eidx
            /\ IF outcome.err # Nil
               THEN epc' = "done" /\ ret' = outcome.err /\ callerReq' = callerReq
               ELSE /\ epc' = "persist"
                    /\ ret' = ret
                    /\ callerReq' =
                         [callerReq EXCEPT !.Conditions =
                             Append(@, IF outcome.message # ""
                                       THEN DeniedCondition(outcome.message)
                                       ELSE ApprovedCondition)]
    /\ UNCHANGED <<store, fetched, ref, pc, calls, entryReq>>
    /\ UNCHANGED <<registryVars, setVars>>

\* mutant of EvaluateInspect: an error of a member is dropped, as if the
\* member had no objection
EvaluateInspectDropsError(outcome) ==
    /\ epc = "inspect"
    /\ outcome \in InspectOutcomes(policy[eidx].Inspector)
    /\ inspectLog' = Append(inspectLog, InspectCall(eidx, outcome))
    /\ IF outcome.err = Nil /\ outcome.message # ""
       THEN /\ epc' = "persist"
            /\ callerReq' = [callerReq EXCEPT !.Conditions =
                                Append(@, DeniedCondition(outcome.message))]
            /\ UNCHANGED <<ret, eidx>>
       ELSE IF eidx < Len(policy)
       THEN /\ eidx' = eidx + 1
            /\ epc' = "inspect"
            /\ UNCHANGED <<callerReq, ret>>
       ELSE /\ epc' = "persist"
            /\ callerReq' = [callerReq EXCEPT !.Conditions =
                                Append(@, ApprovedCondition)]
            /\ UNCHANGED <<ret, eidx>>
    /\ UNCHANGED <<store, fetched, ref, pc, calls, entryReq>>
    /\ UNCHANGED <<registryVars, setVars>>

\* Inspect of the next member and what the evaluator does with its answer
EvaluateInspect(outcome) ==
    /\ epc = "inspect"
    /\ outcome \in InspectOutcomes(policy[eidx].Inspector)
    /\ inspectLog' = Append(inspectLog, InspectCall(eidx, outcome))
    /\ IF outcome.err # Nil
       THEN /\ epc' = "done"
            /\ ret' = outcome.err
            /\ UNCHANGED <<callerReq, eidx>>
       ELSE IF outcome.message # ""
       THEN /\ epc' = "persist"
            /\ callerReq' = [callerReq EXCEPT !.Conditions =
                                Append(@, DeniedCondition(outcome.message))]
            /\ UNCHANGED <<ret, eidx>>
       ELSE IF eidx < Len(policy)
       THEN /\ eidx' = eidx + 1
            /\ epc' = "inspect"
            /\ UNCHANGED <<callerReq, ret>>
       ELSE /\ epc' = "persist"
            /\ callerReq' = [callerReq EXCEPT !.Conditions =
                                Append(@, ApprovedCondition)]
            /\ UNCHANGED <<ret, eidx>>
    /\ UNCHANGED <<store, fetched, ref, pc, calls, entryReq>>
    /\ UNCHANGED <<registryVars, setVars>>

\* the decision is sent to the store
EvaluatePersist(fault) ==
    /\ epc = "persist"
    /\ store' = UpdateApprovalStore(callerReq, fault)
    /\ calls' = Append(calls, CallRecord("UpdateApproval", callerReq.Name, callerReq,
                                         UpdateApprovalErr(callerReq, fault)))
    /\ ret' = UpdateApprovalErr(callerReq, fault)
    /\ epc' = "done"
    /\ UNCHANGED <<callerReq, fetched, ref, pc, entryReq>>
    /\ UNCHANGED <<eidx, inspectLog>>
    /\ UNCHANGED <<registryVars, setVars>>

-----------------------------------------------------------------------------
(* Initial state and specifications.                                       *)

\* Approve has not been called
ApproveIdle ==
    /\ callerReq = NoObject
    /\ entryReq = NoObject
    /\ fetched = NoObject
    /\ ref = "caller"
    /\ pc = "idle"
    /\ ret = Running
    /\ calls = <<>>

InitRegistry ==
    /\ inspectors = <<>>
    /\ writer = NoProc
    /\ readers = {}
    /\ gpc = [g \in Procs |-> "idle"]
    /\ gop = [g \in Procs |-> "List"]
    /\ garg = [g \in Procs |-> <<>>]
    /\ ginst = [g \in Procs |-> NilInspector]
    /\ gres = [g \in Procs |-> NoResult]
    /\ overlap = [g \in Procs |-> {}]
    /\ gfree = [g \in Procs |-> TRUE]

\* no Set has been called, and nothing is being evaluated
SetIdle ==
    /\ policy = <<>>
    /\ setValue = NoValue
    /\ setErr = NoSetError
    /\ configureCalls = <<>>

EvalIdle ==
    /\ epc = "idle"
    /\ eidx = 1
    /\ inspectLog = <<>>

\* the registry once the plugins' init() have run: one plugin, named "a"
StartupRegistry == [k \in {<<"a">>} |-> InstanceOf("g1")]

InitRegistered ==
    /\ inspectors = StartupRegistry
    /\ writer = NoProc
    /\ readers = {}
    /\ gpc = [g \in Procs |-> "idle"]
    /\ gop = [g \in Procs |-> "List"]
    /\ garg = [g \in Procs |-> <<>>]
    /\ ginst = [g \in Procs |-> NilInspector]
    /\ gres = [g \in Procs |-> NoResult]
    /\ overlap = [g \in Procs |-> {}]
    /\ gfree = [g \in Procs |-> TRUE]

\* the policies Set can have built from that registry
PolicyMembers ==
    {NamedInspector(<<"a">>, <<>>, InstanceOf("g1")),
     NamedInspector(<<"a">>, <<"a">>, ConfiguredInspector)}
EvalPipelines ==
    {p \in SeqsUpTo(PolicyMembers, MaxPolicyLen) :
        p # <<>> /\ Len(String(p)) <= MaxPolicyLen}

\* the store holds an undecided request under each name
InitStore ==
    store \in {[n \in CSRNames |-> NewObject(n, f[n])] : f \in [CSRNames -> Identities]}

\* the registry alone: one fixed store, which no registry function reads
StoreAtRest ==
    store = [n \in CSRNames |->
                NewObject(n, [Username |-> kubeletBootstrapUsername,
                              Groups |-> <<kubeletBootstrapGroup>>])]

InitApprove == InitStore /\ ApproveIdle

Init == InitApprove /\ InitRegistry /\ SetIdle /\ EvalIdle

\* the registry beside one fixed store
InitRegistryOnly == StoreAtRest /\ ApproveIdle /\ InitRegistry /\ SetIdle /\ EvalIdle

\* the policy is built from the registry the plugins' init() left
InitSet == StoreAtRest /\ ApproveIdle /\ InitRegistered /\ SetIdle /\ EvalIdle

\* a built policy is evaluated
InitEvaluate ==
    /\ StoreAtRest /\ ApproveIdle /\ InitRegistered /\ EvalIdle
    /\ policy \in EvalPipelines
    /\ setValue = NoValue
    /\ setErr = NoSetError
    /\ configureCalls = <<>>

NextApprove ==
    \/ \E n \in CSRNames : ApproveCall(n)
    \/ ApproveAgain
    \/ ApproveCheck
    \/ \E fault \in {Nil} \cup OtherErrors : ApproveUpdate(fault)
    \/ \E fault \in {Nil} \cup OtherErrors : ApproveGet(fault)
    \/ \E n \in CSRNames, type \in {CertificateApproved, CertificateDenied} :
           OtherActorDecide(n, type)
    \/ \E n \in CSRNames : OtherActorTouch(n)
    \/ \E n \in CSRNames, id \in Identities : OtherActorRecreate(n, id)

NextRegistry ==
    \/ \E g \in Procs, name \in PluginNames :
           \E a \in {InstanceOf(g), NilInspector} : RegisterCall(g, name, a)
    \/ \E g \in Procs, name \in PluginNames : UnregisterCall(g, name)
    \/ \E g \in Procs, name \in PluginNames : GetCall(g, name)
    \/ \E g \in Procs : ListCall(g)
    \/ \E g \in Procs : RegisterLock(g)
    \/ \E g \in Procs : UnregisterLock(g)
    \/ \E g \in Procs : GetLock(g)
    \/ \E g \in Procs : ListRLock(g)
    \/ \E g \in Procs : RegisterCheck(g)
    \/ \E g \in Procs : RegisterStore(g)
    \/ \E g \in Procs : UnregisterDelete(g)
    \/ \E g \in Procs : GetLookup(g)
    \/ \E g \in Procs : ListCollect(g)

Next == NextApprove \/ NextRegistry

\* the store may also answer a conflict that no modelled writer caused, but
\* only finitely often in a row
SpuriousConflict ==
    /\ Len(calls) < MaxLog
    /\ ApproveUpdate(ConflictError)

NextApproveFair == NextApprove \/ SpuriousConflict

\* Approve is a running function: it takes its next step, and the store
\* answers every call
ApproveFairness ==
    /\ WF_vars(ApproveCheck)
    /\ WF_vars(\E fault \in {Nil} \cup OtherErrors : ApproveUpdate(fault))
    /\ WF_vars(\E fault \in {Nil} \cup OtherErrors : ApproveGet(fault))

SpecApproveFair == Init /\ [][NextApproveFair]_vars /\ ApproveFairness
NextSet == \E value \in Values : Set(value)

NextEvaluate ==
    \/ \E n \in CSRNames : EvaluateCall(n)
    \/ \E outcome \in InspectOutcomes(InstanceOf("g1")) \cup
                      InspectOutcomes(ConfiguredInspector) : EvaluateInspect(outcome)
    \/ \E fault \in {Nil} \cup OtherErrors : EvaluatePersist(fault)

SpecSet == InitSet /\ [][NextSet]_vars
SpecEvaluate == InitEvaluate /\ [][NextEvaluate]_vars
SpecApprove == Init /\ [][NextApprove]_vars
SpecRegistry == InitRegistryOnly /\ [][NextRegistry]_vars
Spec == Init /\ [][Next]_vars

-----------------------------------------------------------------------------
(* Properties of Always.Approve (checked under SpecApprove).               *)

IsUpdateCall(c) == c.op = "UpdateApproval"
IsGetCall(c) == c.op = "Get"
ConflictingUpdate(c) == IsUpdateCall(c) /\ Contains(c.err, ConflictIndicator)

\* the identity the rule approves, stated without the code's loop
ExactIdentity(req) ==
    /\ req.Username = "kubelet-bootstrap"
    /\ \E i \in 1..Len(req.Groups) : req.Groups[i] = "system:kubelet-bootstrap"

Eligible(req) == req.Conditions = <<>> /\ ExactIdentity(req)

\* C1: retry on conflict.  Every UpdateApproval that fails with a text
\* containing "the object has been modified" is followed by exactly one Get of
\* the same name (and a Get happens only there); the update after a successful
\* Get submits the fetched object with the condition appended; and when the
\* first update conflicts and the second succeeds, Approve has returned nil
\* after exactly two updates and one Get.
RetryOnConflict ==
    /\ \A i \in 1..Len(calls) :
          /\ ConflictingUpdate(calls[i]) =>
                IF i = Len(calls) THEN pc = "get"
                ELSE /\ IsGetCall(calls[i + 1])
                     /\ calls[i + 1].name = calls[i].name
          /\ IsGetCall(calls[i]) => i > 1 /\ ConflictingUpdate(calls[i - 1])
          /\ (IsGetCall(calls[i]) /\ i < Len(calls)) =>
                /\ calls[i].err = Nil
                /\ IsUpdateCall(calls[i + 1])
                /\ calls[i + 1].obj =
                      [calls[i].obj EXCEPT !.Conditions = Append(@, condition)]
    /\ pc = "get" => Len(calls) > 0 /\ ConflictingUpdate(calls[Len(calls)])
    /\ (/\ Len(calls) >= 3
        /\ ConflictingUpdate(calls[1])
        /\ IsUpdateCall(calls[3])
        /\ calls[3].err = Nil)
          => /\ pc = "done"
             /\ ret = Nil
             /\ Len(calls) = 3
             /\ IsGetCall(calls[2])
             /\ calls[2].err = Nil

RetryOnConflictWitness ==
    /\ pc = "done"
    /\ ret = Nil
    /\ Eligible(entryReq)
    /\ Len(calls) = 3
    /\ ConflictingUpdate(calls[1])
    /\ IsGetCall(calls[2]) /\ calls[2].name = entryReq.Name
    /\ IsUpdateCall(calls[3]) /\ calls[3].err = Nil
    /\ store[entryReq.Name].Conditions = <<condition>>

\* no step changes or extends the conditions of a stored request that has one;
\* only its deletion and re-creation by another actor clears them
SingleDecisionKept ==
    \A n \in CSRNames :
        store[n].Conditions # <<>> =>
            \/ store'[n].Conditions = store[n].Conditions
            \/ /\ store'[n].Conditions = <<>>
               /\ pc' = pc
               /\ calls' = calls

\* C2: no double decision under concurrent modification.  A stored request
\* never carries more than one condition; no step changes or extends the
\* conditions of a stored request that has one (only its deletion and
\* re-creation clears them), so a request denied by another actor is never
\* approved; an update made from an object read before another actor's write
\* conflicts and leaves the store as it is; and once a re-fetch returns an
\* object that carries a condition, Approve makes no further store call and
\* returns nil.
NoDoubleDecision ==
    /\ [](\A n \in CSRNames : Len(store[n].Conditions) <= 1)
    /\ [][SingleDecisionKept]_vars
    /\ [](\A i \in 1..Len(calls) :
            /\ (IsUpdateCall(calls[i]) /\ calls[i].err = Nil) =>
                  /\ Len(calls[i].obj.Conditions) = 1
                  /\ i = Len(calls)
            /\ (IsGetCall(calls[i]) /\ calls[i].err = Nil
                    /\ calls[i].obj.Conditions # <<>>) =>
                  /\ i = Len(calls)
                  /\ pc \in {"check", "done"}
                  /\ pc = "done" => ret = Nil
                  /\ fetched = calls[i].obj)
    /\ [][(pc = "update" /\ pc' # "update"
              /\ store[Request.Name].ResourceVersion # Request.ResourceVersion)
            => (pc' = "get" \/ ret' \in OtherErrors) /\ store' = store]_vars

NoDoubleDecisionWitness ==
    /\ pc = "done"
    /\ ret = Nil
    /\ Eligible(entryReq)
    /\ Len(calls) = 2
    /\ ConflictingUpdate(calls[1])
    /\ IsGetCall(calls[2])
    /\ calls[2].obj.Conditions = <<OtherCondition(CertificateDenied)>>
    /\ store[entryReq.Name].Conditions = <<OtherCondition(CertificateDenied)>>

\* C3: idempotence.  A call of Approve on a request that already carries a
\* condition makes no Get and no UpdateApproval call, leaves the request as
\* it was passed in, and returns nil.
ApproveIdempotent ==
    (pc # "idle" /\ Len(entryReq.Conditions) > 0) =>
        /\ pc \in {"check", "done"}
        /\ calls = <<>>
        /\ callerReq = entryReq
        /\ ref = "caller"
        /\ pc = "done" => ret = Nil

\* a second Approve on the object a first Approve approved and persisted
ApproveIdempotentWitness ==
    /\ pc = "done"
    /\ ret = Nil
    /\ entryReq.Conditions = <<condition>>
    /\ callerReq = entryReq
    /\ store[entryReq.Name].Conditions = <<condition>>
    /\ calls = <<>>

\* C4: identity exactness.  Every object Approve submits through
\* UpdateApproval, and every object it appends a condition to (the caller's
\* or a re-fetched one), has username "kubelet-bootstrap" and the group
\* "system:kubelet-bootstrap" among its groups; a re-fetched object without
\* that identity ends the call with no append and no further store call.
IdentityExactness ==
    /\ \A i \in 1..Len(calls) :
          /\ IsUpdateCall(calls[i]) => ExactIdentity(calls[i].obj)
          /\ (IsGetCall(calls[i]) /\ calls[i].err = Nil
                  /\ ~ExactIdentity(calls[i].obj)) =>
                /\ i = Len(calls)
                /\ fetched = calls[i].obj
    /\ pc = "update" => ExactIdentity(Request)
    /\ (pc # "idle" /\ callerReq # entryReq) => ExactIdentity(entryReq)
    /\ (pc # "idle" /\ ~ExactIdentity(entryReq)) =>
          /\ calls = <<>>
          /\ pc \in {"check", "done"}

\* the request is re-created by somebody else between the conflict and the
\* re-fetch, and the re-fetched object is left alone
IdentityExactnessWitness ==
    /\ pc = "done"
    /\ ret = Nil
    /\ Len(calls) = 2
    /\ IsGetCall(calls[2])
    /\ calls[2].err = Nil
    /\ calls[2].obj.Conditions = <<>>
    /\ calls[2].obj.Username = "kubelet-bootstraq"
    /\ fetched = calls[2].obj
    /\ store[calls[2].name].Conditions = <<>>

\* C5: the rule never denies and abstains silently.  Every object submitted
\* carries exactly the Approved condition, the caller's object is either as
\* passed in or has that one condition appended, and a call on a request that
\* has a condition, another username or not the group returns nil with no
\* store call and the request unchanged; an abstention after a re-fetch
\* returns nil and leaves the fetched object unchanged.
NeverDeniesAbstainsSilently ==
    /\ \A i \in 1..Len(calls) :
          IsUpdateCall(calls[i]) =>
              /\ Len(calls[i].obj.Conditions) = 1
              /\ calls[i].obj.Conditions[1].Type = "Approved"
              /\ calls[i].obj.Conditions[1].Type # "Denied"
    /\ pc # "idle" =>
          \/ callerReq = entryReq
          \/ /\ callerReq.Conditions = Append(entryReq.Conditions, condition)
             /\ condition.Type = "Approved"
    /\ (pc = "done" /\ ~Eligible(entryReq)) =>
          /\ ret = Nil
          /\ calls = <<>>
          /\ callerReq = entryReq
    /\ (pc = "done" /\ Len(calls) > 0 /\ IsGetCall(calls[Len(calls)])
            /\ calls[Len(calls)].err = Nil) =>
          /\ ret = Nil
          /\ ~Eligible(calls[Len(calls)].obj)
          /\ fetched = calls[Len(calls)].obj

\* an abstention on a request submitted under a username one character off
NeverDeniesAbstainsSilentlyWitness ==
    /\ pc = "done"
    /\ entryReq.Conditions = <<>>
    /\ entryReq.Username = "kubelet-bootstraq"
    /\ ret = Nil
    /\ calls = <<>>
    /\ store[entryReq.Name].Conditions = <<>>

\* C6: a persistence error that is not a conflict is not retried.  An
\* UpdateApproval that fails with a text not containing "the object has been
\* modified" is the call's last store call, and Approve has returned that
\* error.
NonConflictNotRetried ==
    \A i \in 1..Len(calls) :
        (IsUpdateCall(calls[i]) /\ calls[i].err \in OtherErrors) =>
            /\ i = Len(calls)
            /\ pc = "done"
            /\ ret = calls[i].err

NonConflictNotRetriedWitness ==
    /\ pc = "done"
    /\ Len(calls) = 1
    /\ IsUpdateCall(calls[1])
    /\ calls[1].err = DeletedError
    /\ ret = DeletedError

\* C7 (as claimed): after Approve returns a persistence error that is not a
\* conflict, the object the caller passed in carries no condition appended by
\* this call.
FailedPersistDiscardsMutation ==
    (/\ pc = "done"
     /\ ret \in OtherErrors
     /\ Len(calls) > 0
     /\ IsUpdateCall(calls[Len(calls)]))
        => callerReq = entryReq

\* C18: at most one terminal condition per run.  Every object Approve submits
\* through UpdateApproval carries exactly one condition, the Approved one; in
\* one call of Approve at most one UpdateApproval succeeds, and it is the
\* call's last store call, after which Approve has returned nil.
AtMostOneTerminalCondition ==
    /\ \A i \in 1..Len(calls) :
          IsUpdateCall(calls[i]) =>
              /\ calls[i].obj.Conditions = <<condition>>
              /\ calls[i].err = Nil =>
                    /\ i = Len(calls)
                    /\ pc = "done"
                    /\ ret = Nil
    /\ Cardinality({i \in 1..Len(calls) :
                        IsUpdateCall(calls[i]) /\ calls[i].err = Nil}) <= 1

\* a call whose first update succeeds
AtMostOneTerminalConditionWitness ==
    /\ pc = "done"
    /\ Len(calls) = 1
    /\ IsUpdateCall(calls[1])
    /\ calls[1].err = Nil
    /\ calls[1].obj.Conditions = <<condition>>
    /\ store[calls[1].name].Conditions = <<condition>>

\* C20: a failed re-fetch ends the protocol.  A Get that fails is the call's
\* last store call, Approve has returned the error of that Get, and no
\* UpdateApproval of the call has succeeded, so the call wrote no condition
\* to the store.
RefetchFailureEnds ==
    \A i \in 1..Len(calls) :
        (IsGetCall(calls[i]) /\ calls[i].err # Nil) =>
            /\ i = Len(calls)
            /\ pc = "done"
            /\ ret = calls[i].err
            /\ \A j \in 1..Len(calls) :
                  IsUpdateCall(calls[j]) => calls[j].err # Nil

RefetchFailureEndsWitness ==
    /\ pc = "done"
    /\ Len(calls) = 2
    /\ ConflictingUpdate(calls[1])
    /\ IsGetCall(calls[2])
    /\ calls[2].err = TimeoutError
    /\ ret = TimeoutError
    /\ store[calls[2].name].Conditions = <<>>

LastCall == calls[Len(calls)]

\* the four ways out of the loop, read off the calls made
AbstainedAtEntry == calls = <<>> /\ ~Eligible(entryReq)
AbstainedAfterRefetch ==
    /\ calls # <<>> /\ IsGetCall(LastCall)
    /\ LastCall.err = Nil /\ ~Eligible(LastCall.obj)
UpdateSucceeded == calls # <<>> /\ IsUpdateCall(LastCall) /\ LastCall.err = Nil
UpdateFailed == calls # <<>> /\ IsUpdateCall(LastCall) /\ LastCall.err \in OtherErrors
RefetchFailed == calls # <<>> /\ IsGetCall(LastCall) /\ LastCall.err # Nil

\* C17: termination of the retry loop (checked under SpecApproveFair).
\* Approve has returned only if an iteration abstained, an update succeeded,
\* an update failed with a non-conflict error or a re-fetch failed, and it
\* has returned once an update succeeded or failed that way or a re-fetch
\* failed; after a conflict, however many came before, it is still in its
\* loop (at the Get, and after a Get of an eligible object at the next
\* update), so a store that keeps answering a conflict keeps it there; and
\* when the store answers only finitely many conflicts in a row, every call
\* of Approve returns.
ApproveTerminates ==
    /\ [](pc = "done" =>
            \/ (AbstainedAtEntry \/ AbstainedAfterRefetch) /\ ret = Nil
            \/ UpdateSucceeded /\ ret = Nil
            \/ UpdateFailed /\ ret = LastCall.err
            \/ RefetchFailed /\ ret = LastCall.err)
    /\ []((UpdateSucceeded \/ UpdateFailed \/ RefetchFailed) => pc = "done")
    /\ []((calls # <<>> /\ ConflictingUpdate(LastCall)) => pc = "get")
    /\ []((calls # <<>> /\ IsGetCall(LastCall) /\ LastCall.err = Nil
              /\ Eligible(LastCall.obj)) => pc \in {"check", "update"})
    /\ ((pc \in {"check", "update", "get"}) ~> (pc = "done"))

\* two conflicts in a row, then a successful update
ApproveTerminatesWitness ==
    /\ pc = "done"
    /\ ret = Nil
    /\ Len(calls) = 5
    /\ ConflictingUpdate(calls[1])
    /\ ConflictingUpdate(calls[3])
    /\ IsUpdateCall(calls[5]) /\ calls[5].err = Nil

-----------------------------------------------------------------------------
(* Properties of the registry (checked under SpecRegistry).                *)

\* two names are equal up to the case of their characters
SameUpToCase(a, b) ==
    /\ Len(a) = Len(b)
    /\ \A i \in 1..Len(a) : a[i] = b[i] \/ {a[i], b[i]} = {"A", "a"}

IsLowercase(name) == \A i \in 1..Len(name) : name[i] # "A"

RegisteredUnderAnyCasing(name) ==
    \E k \in DOMAIN inspectors : SameUpToCase(k, name)

InBody(g) == gpc[g] \in {"locked", "checked"}

\* the step in which goroutine g's Register passes or fails its checks
RegisterDecides(g) ==
    (gop[g] = "Register" /\ gpc[g] = "locked" /\ gpc'[g] # "locked") =>
        LET aborts == \/ garg[g] = <<>>
                      \/ ginst[g] = "nil"
                      \/ RegisteredUnderAnyCasing(garg[g])
        IN  /\ inspectors' = inspectors
            /\ IF aborts
               THEN gres'[g].out = "panicked" /\ gpc'[g] = "idle"
               ELSE gres'[g].out = "none" /\ gpc'[g] = "checked"

\* the step in which goroutine g's Register stores its instance
RegisterAdds(g) ==
    (gop[g] = "Register" /\ gpc[g] = "checked" /\ gpc'[g] # "checked") =>
        \E key \in DOMAIN inspectors' :
            /\ SameUpToCase(key, garg[g]) /\ IsLowercase(key)
            /\ key \notin DOMAIN inspectors
            /\ DOMAIN inspectors' = DOMAIN inspectors \cup {key}
            /\ inspectors'[key] = ginst[g]
            /\ \A k \in DOMAIN inspectors : inspectors'[k] = inspectors[k]
            /\ gres'[g].out = "returned"

\* an entry that stays keeps its instance
FirstInstanceKept ==
    \A k \in DOMAIN inspectors \cap DOMAIN inspectors' : inspectors'[k] = inspectors[k]

\* C8: registration invariants.  Register panics exactly when the name is
\* empty, the instance is nil or the name is registered under some casing,
\* and then leaves the map as it is; otherwise it adds exactly the lowercase
\* of the name with its instance; so every key is non-empty and lowercase,
\* holds a non-nil instance, and keeps the instance first stored under it.
RegistrationInvariants ==
    /\ [](\A k \in DOMAIN inspectors :
            k # <<>> /\ IsLowercase(k) /\ inspectors[k] # "nil")
    /\ [][\A g \in Procs : RegisterDecides(g) /\ RegisterAdds(g)]_vars
    /\ [][FirstInstanceKept]_vars

\* "A" was registered, and a later Register of "a" panicked
RegistrationInvariantsWitness ==
    /\ gop["g1"] = "Register" /\ garg["g1"] = <<"A">>
    /\ gres["g1"].out = "returned"
    /\ gop["g2"] = "Register" /\ garg["g2"] = <<"a">> /\ ginst["g2"] = "inspector2"
    /\ gres["g2"].out = "panicked"
    /\ overlap["g2"] = {}
    /\ DOMAIN inspectors = {<<"a">>}
    /\ inspectors[<<"a">>] = "inspector1"

\* C9: the registry functions are atomic.  Between taking and releasing the
\* mutex a goroutine holds it (List for reading, the others for writing), no
\* writer shares it, and the name Register checked is still unregistered when
\* it stores; two Register calls that overlap in time and whose names are
\* equal up to case never both return, and when the name was unregistered as
\* each of them began, exactly one returns and the map holds its instance.
RegistryAtomic ==
    /\ \A g \in Procs :
          /\ InBody(g) =>
                IF gop[g] = "List"
                THEN g \in readers /\ writer = NoProc
                ELSE writer = g /\ readers = {}
          /\ ~InBody(g) => writer # g /\ g \notin readers
          /\ gpc[g] = "checked" => ~RegisteredUnderAnyCasing(garg[g])
    /\ \A g \in Procs : \A h \in Procs \ {g} :
          (/\ gop[g] = "Register" /\ gop[h] = "Register"
           /\ h \in overlap[g]
           /\ SameUpToCase(garg[g], garg[h]))
            => /\ ~(gres[g].out = "returned" /\ gres[h].out = "returned")
               /\ (/\ gpc[g] = "idle" /\ gpc[h] = "idle"
                   /\ garg[g] # <<>>
                   /\ ginst[g] # "nil" /\ ginst[h] # "nil"
                   /\ gfree[g] /\ gfree[h])
                    => \E w \in {g, h} :
                          /\ gres[w].out = "returned"
                          /\ \E k \in DOMAIN inspectors :
                                SameUpToCase(k, garg[w]) /\ inspectors[k] = ginst[w]

\* Register("A", inspector1) and Register("a", inspector2) ran concurrently
RegistryAtomicWitness ==
    /\ gop["g1"] = "Register" /\ garg["g1"] = <<"A">> /\ ginst["g1"] = "inspector1"
    /\ gop["g2"] = "Register" /\ garg["g2"] = <<"a">> /\ ginst["g2"] = "inspector2"
    /\ overlap["g1"] = {"g2"} /\ overlap["g2"] = {"g1"}
    /\ gfree["g1"] /\ gfree["g2"]
    /\ gres["g1"].out = "panicked"
    /\ gres["g2"].out = "returned"
    /\ inspectors[<<"a">>] = "inspector2"

\* Get's lookup itself: it reports the entry stored under the literal name,
\* without folding case, and leaves the map as it is
GetIsPureLookup ==
    [][\A g \in Procs :
          (gop[g] = "Get" /\ gpc[g] = "locked" /\ gpc'[g] = "idle") =>
              /\ inspectors' = inspectors
              /\ gres'[g].exists = (garg[g] \in DOMAIN inspectors)
              /\ gres'[g].exists => gres'[g].a = inspectors[garg[g]]
              /\ ~gres'[g].exists => gres'[g].a = "nil"]_vars

\* C10 (as claimed): a Get that waits for the mutex waits for a writer, that
\* is a Register or an Unregister holding it, never for another Get or a List.
GetWaitsOnlyForWriters ==
    \A g \in Procs :
        (gop[g] = "Get" /\ gpc[g] = "lock" /\ ~CanLock(g)) =>
            /\ readers = {}
            /\ writer # NoProc
            /\ gop[writer] \in WriteOps

\* C11 (as claimed): an Unregister(n) leaves no entry for n, under whatever
\* casing n was registered, and an Unregister of a name that has no entry
\* leaves the map as it is.
UnregisterRemovesEntry ==
    [][\A g \in Procs :
          (gop[g] = "Unregister" /\ gpc[g] = "locked" /\ gpc'[g] = "idle") =>
              /\ \A k \in DOMAIN inspectors' : ~SameUpToCase(k, garg[g])
              /\ ~RegisteredUnderAnyCasing(garg[g]) => inspectors' = inspectors]_vars

-----------------------------------------------------------------------------
(* Properties of the policy (checked under SpecSet).                       *)

\* the pieces of s between the occurrences of sep, from left to right
RECURSIVE Split(_, _)
Split(s, sep) ==
    IF \A i \in 1..Len(s) : s[i] # sep THEN <<s>>
    ELSE LET i == CHOOSE k \in 1..Len(s) : s[k] = sep /\ \A j \in 1..(k - 1) : s[j] # sep
         IN  <<SubSeq(s, 1, i - 1)>> \o Split(SubSeq(s, i + 1, Len(s)), sep)

\* the name of a token is what precedes its first "=", its config all that
\* follows that "="
TokenName(t) ==
    CHOOSE n \in {SubSeq(t, 1, k) : k \in 0..Len(t)} :
        /\ \A i \in 1..Len(n) : n[i] # "="
        /\ Len(n) = Len(t) \/ t[Len(n) + 1] = "="
TokenConfig(t) == SubSeq(t, Len(TokenName(t)) + 2, Len(t))

\* a step in which a call of Set returned
SetReturned == setVars' # setVars

NamesAndConfigs(p) == [i \in 1..Len(p) |-> <<p[i].Name, p[i].Config>>]

\* C12: pipeline order.  A Set whose value is a list of tokens separated by
\* ",", every token naming a registered plugin and no Configure failing,
\* succeeds and appends one member per token, in the order of the tokens,
\* each with its token's name and config.
PipelineOrder ==
    [][SetReturned =>
          LET tokens == Split(setValue', ",")
          IN  (/\ \A i \in 1..Len(tokens) : TokenName(tokens[i]) \in DOMAIN inspectors
               /\ \A c \in 1..Len(configureCalls') :
                     configureCalls'[c].outcome.err = NoSetError)
              => /\ setErr' = NoSetError
                 /\ Len(policy') = Len(policy) + Len(tokens)
                 /\ \A i \in 1..Len(tokens) :
                       /\ policy'[Len(policy) + i].Name = TokenName(tokens[i])
                       /\ policy'[Len(policy) + i].Config = TokenConfig(tokens[i])]_vars

\* C13: fail-fast build.  When a token of the value names an unregistered
\* plugin (and no token before it has a config that Configure could reject),
\* Set fails with the not-found error of that token; when Configure fails,
\* Set fails with its error; in both cases nothing is added to the policy.
FailFastBuild ==
    [][SetReturned =>
          LET tokens == Split(setValue', ",")
              bad == {i \in 1..Len(tokens) : TokenName(tokens[i]) \notin DOMAIN inspectors}
              first == CHOOSE i \in bad : \A j \in bad : i <= j
          IN  /\ (bad # {} /\ \A j \in 1..(first - 1) : TokenConfig(tokens[j]) = <<>>)
                 => /\ setErr' = NotFoundError(TokenName(tokens[first]), DOMAIN inspectors)
                    /\ policy' = policy
              /\ \A c \in 1..Len(configureCalls') :
                    configureCalls'[c].outcome.err # NoSetError
                    => /\ setErr' = configureCalls'[c].outcome.err
                       /\ policy' = policy]_vars

\* a Set that fails leaves the policy as it was
FailedSetBuildsNothing ==
    [][(SetReturned /\ setErr' # NoSetError) => policy' = policy]_vars

\* C14: round trip of the rendering.  Set on the empty policy with the
\* String of a built policy succeeds and gives a policy with the same names
\* and configs in the same order.
RenderParseRoundTrip ==
    (setErr = NoSetError /\ policy # <<>>) =>
        \A outcome \in ConfigureOutcomes(NilInspector) :
            outcome.err = NoSetError =>
                /\ SetResult(<<>>, String(policy), outcome).err = NoSetError
                /\ NamesAndConfigs(SetResult(<<>>, String(policy), outcome).policy)
                      = NamesAndConfigs(policy)

\* C19: token parsing and configuration in Set.  The name is what precedes
\* the first "=" of the value and the config all that follows it; Configure
\* is called, once and with that config on the registered instance, exactly
\* when the name is registered and the config is not empty; a successful Set
\* appends the name, the config and the instance Configure answered (the
\* registered instance when the config is empty); an unknown name gives the
\* not-found error with the name and the registered names; and the registry
\* is left as it was.
SetTokenParsing ==
    [][SetReturned =>
          LET name == TokenName(setValue')
              config == TokenConfig(setValue')
              registered == name \in DOMAIN inspectors
          IN  /\ inspectors' = inspectors
              /\ IF registered /\ config # <<>>
                 THEN /\ Len(configureCalls') = 1
                      /\ configureCalls'[1].receiver = inspectors[name]
                      /\ configureCalls'[1].config = config
                      /\ IF configureCalls'[1].outcome.err # NoSetError
                         THEN /\ setErr' = configureCalls'[1].outcome.err
                              /\ policy' = policy
                         ELSE /\ setErr' = NoSetError
                              /\ policy' = Append(policy,
                                    NamedInspector(name, config,
                                        configureCalls'[1].outcome.inspector))
                 ELSE /\ configureCalls' = <<>>
                      /\ IF registered
                         THEN /\ setErr' = NoSetError
                              /\ policy' = Append(policy,
                                    NamedInspector(name, <<>>, inspectors[name]))
                         ELSE /\ setErr' = NotFoundError(name, DOMAIN inspectors)
                              /\ policy' = policy]_vars

\* Set("a==") has returned: the config is "=", Configure was called with it
SetTokenParsingWitness ==
    /\ setValue = <<"a", "=", "=">>
    /\ setErr = NoSetError
    /\ Len(configureCalls) = 1
    /\ configureCalls[1].config = <<"=">>
    /\ policy # <<>>
    /\ policy[Len(policy)] = NamedInspector(<<"a">>, <<"=">>, ConfiguredInspector)
    /\ inspectors = StartupRegistry

-----------------------------------------------------------------------------
(* Properties of the evaluation (checked under SpecEvaluate).              *)

\* C15: short-circuit on deny.  When Inspect of a member answers a message,
\* no member after it is inspected, the request carries exactly one
\* condition, a Denied one with that message, what is sent to the store is
\* that, and once the update succeeded the stored request carries it.
ShortCircuitOnDeny ==
    \A i \in 1..Len(inspectLog) :
        /\ inspectLog[i].member = i
        /\ (inspectLog[i].err = Nil /\ inspectLog[i].message # "") =>
              /\ i = Len(inspectLog)
              /\ inspectLog[i].message = Objection(policy[i].Inspector)
              /\ epc \in {"persist", "done"}
              /\ callerReq.Conditions = <<DeniedCondition(inspectLog[i].message)>>
              /\ \A c \in 1..Len(calls) : calls[c].obj = callerReq
              /\ (epc = "done" /\ ret = Nil) =>
                    store[callerReq.Name].Conditions = callerReq.Conditions

\* the first of two members objected, and the denial is stored
ShortCircuitOnDenyWitness ==
    /\ Len(policy) = 2
    /\ policy[1].Inspector # policy[2].Inspector
    /\ Len(inspectLog) = 1
    /\ inspectLog[1].message = Objection(policy[1].Inspector)
    /\ epc = "done"
    /\ ret = Nil
    /\ store[callerReq.Name].Conditions = <<DeniedCondition(Objection(policy[1].Inspector))>>

\* C16: short-circuit on error.  When Inspect of a member answers an error,
\* no member after it is inspected, the evaluator has returned that error,
\* the request carries no condition, and no update was sent to the store,
\* which holds the request as it was.
ShortCircuitOnError ==
    \A i \in 1..Len(inspectLog) :
        inspectLog[i].err # Nil =>
            /\ i = Len(inspectLog)
            /\ epc = "done"
            /\ ret = inspectLog[i].err
            /\ callerReq.Conditions = <<>>
            /\ calls = <<>>
            /\ store[callerReq.Name] = callerReq

\* the first of two members failed
ShortCircuitOnErrorWitness ==
    /\ Len(policy) = 2
    /\ policy[1].Inspector # policy[2].Inspector
    /\ Len(inspectLog) = 1
    /\ inspectLog[1].err = InspectError(policy[1].Inspector)
    /\ epc = "done"
    /\ ret = InspectError(policy[1].Inspector)

====
